---------------------------- MODULE Spec2Model ----------------------------
(***************************************************************************)
(* A model of the two command-line tools of x-bookmarks:                   *)
(*   convert-bookmarks-to-md.js (the converter, tool "convert") and        *)
(*   filter-bookmarks.js        (the filter tool, tool "filter").          *)
(* Strings that the code inspects character by character (command-line     *)
(* arguments, tweet text) are sequences of one-character strings.          *)
(* Instants are milliseconds counted from 2026-01-30T00:00:00Z (BaseDay),  *)
(* so that they stay inside TLC's 32-bit integers.                         *)
(***************************************************************************)
EXTENDS Integers, Sequences, FiniteSets, TLC

VARIABLES
    tool,       \* which script runs: "convert" or "filter"
    args,       \* process.argv.slice(2)
    tzOffset,   \* local time minus UTC, in ms (the process's time zone)
    pc,         \* position of the run
    argIdx,     \* parseArgs: the loop index i (1-based)
    options,    \* parseArgs: result / main: options
    bookmarks,  \* main: the parsed input array
    filtered,   \* main: the result of filterByDate
    document,   \* main: markdown / output, built in memory
    stdout,     \* what console.log printed
    stderr,     \* what console.error printed
    outFile,    \* the content written to the output file, if any
    ioLog,      \* the file-system calls made so far, in order
    inputContent, \* what the input file turned out to hold, once read
    exitCode    \* the process's exit status, NoExit while it runs

vars == <<tool, args, tzOffset, pc, argIdx, options, bookmarks, filtered,
          document, stdout, stderr, outFile, ioLog, inputContent, exitCode>>

----------------------------------------------------------------------------
(* Bounds of the model *)

MaxItems == 3
MaxRecords == 2
MaxArgs == 3

----------------------------------------------------------------------------
(* Strings *)

Str_from   == <<"-", "-", "f", "r", "o", "m">>
Str_to     == <<"-", "-", "t", "o">>
Str_o      == <<"-", "o">>
Str_output == <<"-", "-", "o", "u", "t", "p", "u", "t">>
Str_h      == <<"-", "h">>
Str_help   == <<"-", "-", "h", "e", "l", "p">>
Str_v      == <<"-", "v">>
Str_empty  == <<>>
Str_in     == <<"i", "n">>
Str_out    == <<"o", "u", "t">>
Str_jan31  == <<"2", "0", "2", "6", "-", "0", "1", "-", "3", "1">>
Str_feb01  == <<"2", "0", "2", "6", "-", "0", "2", "-", "0", "1">>
Str_2seg   == <<"2", "0", "2", "6", "-", "0", "1">>
Str_nonnum == <<"2", "0", "2", "6", "-", "x", "-", "3", "1">>

Digits == <<"0", "1", "2", "3", "4", "5", "6", "7", "8", "9">>

IsDigit(c) == \E k \in 1..Len(Digits) : Digits[k] = c

DigitVal(c) == (CHOOSE k \in 1..Len(Digits) : Digits[k] = c) - 1

\* String.prototype.startsWith('-')
StartsWithDash(s) == Len(s) > 0 /\ s[1] = "-"

\* a JavaScript string is truthy iff it is not empty
TruthyStr(s) == Len(s) > 0

\* String.prototype.split('-'): the pieces between the dashes
RECURSIVE SplitDash(_)
SplitDash(s) ==
    IF \A k \in 1..Len(s) : s[k] # "-"
    THEN <<s>>
    ELSE LET k == CHOOSE j \in 1..Len(s) :
                     s[j] = "-" /\ \A l \in 1..(j - 1) : s[l] # "-"
         IN  <<SubSeq(s, 1, k - 1)>> \o SplitDash(SubSeq(s, k + 1, Len(s)))

\* JavaScript numbers as far as the code needs them: an integer or NaN
NaN == [nan |-> TRUE, n |-> 0]
Num(n) == [nan |-> FALSE, n |-> n]

RECURSIVE DecimalValue(_)
DecimalValue(s) ==
    IF Len(s) = 0 THEN 0
    ELSE 10 * DecimalValue(SubSeq(s, 1, Len(s) - 1)) + DigitVal(s[Len(s)])

\* Number(str): '' is 0, a run of digits is its value, anything else is NaN
Number(s) ==
    IF \A k \in 1..Len(s) : IsDigit(s[k]) THEN Num(DecimalValue(s)) ELSE NaN

----------------------------------------------------------------------------
(* Dates *)

MsPerMinute == 60 * 1000
MsPerHour == 60 * MsPerMinute
MsPerDay == 24 * MsPerHour

\* days from 1970-01-01 to the civil date y-m-d (m in 1..12, d any integer)
DaysFromCivil(y, m, d) ==
    LET yy  == IF m <= 2 THEN y - 1 ELSE y
        era == yy \div 400
        yoe == yy - era * 400
        mp  == IF m > 2 THEN m - 3 ELSE m + 9
        doy == (153 * mp + 2) \div 5 + d - 1
        doe == yoe * 365 + yoe \div 4 - yoe \div 100 + doy
    IN  era * 146097 + doe - 719468

\* the day instants are counted from
BaseDay == DaysFromCivil(2026, 1, 30)

\* Date values: null (no Date), a valid Date with its time value, Invalid Date
Null == [kind |-> "null", ms |-> 0]
InvalidDate == [kind |-> "invalid", ms |-> 0]
DateAt(ms) == [kind |-> "date", ms |-> ms]

\* a Date object is truthy, valid or not; null is not
Truthy(d) == d.kind # "null"

\* ECMAScript MakeDay: month overflow carries into the year, the day counts
\* from the first of the month
MakeDay(year, monthIndex, date) ==
    LET ym == year + monthIndex \div 12
        mn == monthIndex % 12
    IN  DaysFromCivil(ym, mn + 1, 1) - BaseDay + date - 1

\* new Date(year, monthIndex, day): local midnight of that day; NaN in any
\* argument gives Invalid Date; years 0..99 mean 1900..1999
NewDateLocal(year, monthIndex, day) ==
    IF year.nan \/ monthIndex.nan \/ day.nan
    THEN InvalidDate
    ELSE LET fullYear == IF year.n >= 0 /\ year.n <= 99
                         THEN 1900 + year.n ELSE year.n
         IN  DateAt(MakeDay(fullYear, monthIndex.n, day.n) * MsPerDay - tzOffset)

\* Date.prototype.setHours(h, m, s, ms) in local time
SetHours(d, h, m, s, ms) ==
    IF d.kind # "date" THEN d
    ELSE LET localMs  == d.ms + tzOffset
             localDay == localMs \div MsPerDay
         IN  DateAt(localDay * MsPerDay + h * MsPerHour + m * MsPerMinute
                    + s * 1000 + ms - tzOffset)

\* a createdAt string: absent, text new Date() cannot parse, or a timestamp
\* with an explicit +0000 zone
NoStamp == [kind |-> "absent", y |-> 0, mo |-> 0, d |-> 0,
            h |-> 0, mi |-> 0, s |-> 0, ms |-> 0]
Garbage == [kind |-> "garbage", y |-> 0, mo |-> 0, d |-> 0,
            h |-> 0, mi |-> 0, s |-> 0, ms |-> 0]
Stamp(y, mo, d, h, mi, s, ms) ==
    [kind |-> "stamp", y |-> y, mo |-> mo, d |-> d,
     h |-> h, mi |-> mi, s |-> s, ms |-> ms]

parseTwitterDate(dateStr) ==
    IF dateStr.kind = "stamp"
    THEN DateAt((DaysFromCivil(dateStr.y, dateStr.mo, dateStr.d) - BaseDay) * MsPerDay
                + dateStr.h * MsPerHour + dateStr.mi * MsPerMinute
                + dateStr.s * 1000 + dateStr.ms)
    ELSE InvalidDate

\* the array destructuring [year, month, day]: a missing element is
\* undefined, and Number arithmetic on undefined is NaN
Element(segs, k) == IF k <= Len(segs) THEN Number(segs[k]) ELSE NaN

Minus1(x) == IF x.nan THEN NaN ELSE Num(x.n - 1)

parseUserDate(dateStr) ==
    LET segs  == SplitDash(dateStr)
        year  == Element(segs, 1)
        month == Element(segs, 2)
        day   == Element(segs, 3)
    IN  NewDateLocal(year, Minus1(month), day)

\* createdAt < fromDate, createdAt > toDate: a comparison with NaN is false
DateLess(a, b) == a.kind = "date" /\ b.kind = "date" /\ a.ms < b.ms
DateGreater(a, b) == a.kind = "date" /\ b.kind = "date" /\ a.ms > b.ms

----------------------------------------------------------------------------
(* Bookmark records *)

NoAuthor == [present |-> FALSE, name |-> "", username |-> ""]
Author(name, username) == [present |-> TRUE, name |-> name, username |-> username]

\* an optional count: null/undefined, or a number
NoCount == [null |-> TRUE, n |-> 0]
Count(n) == [null |-> FALSE, n |-> n]

NoQuote == [present |-> FALSE, author |-> NoAuthor, text |-> <<>>]
Quote(author, text) == [present |-> TRUE, author |-> author, text |-> text]

Tweet(id, createdAt, text, author, likeCount, retweetCount, replyCount, quotedTweet) ==
    [isNull |-> FALSE, id |-> id, createdAt |-> createdAt, text |-> text,
     author |-> author, likeCount |-> likeCount, retweetCount |-> retweetCount,
     replyCount |-> replyCount, quotedTweet |-> quotedTweet]

\* a record of which only id and createdAt are given
Bare(id, createdAt) ==
    Tweet(id, createdAt, <<>>, NoAuthor, NoCount, NoCount, NoCount, NoQuote)

\* a null among the elements of the array: reading a property of it throws
NullElement == [Bare(0, NoStamp) EXCEPT !.isNull = TRUE]
ThrowsOn(bs) == \E k \in 1..Len(bs) : bs[k].isNull

\* all sequences over S of length at most n
SeqsUpTo(S, n) == UNION {[1..k -> S] : k \in 0..n}

----------------------------------------------------------------------------
(* filterByDate *)

\* a faulty variant: the bounds are exclusive (<= and >= in place of < and >)
KeepBookmarkExclusive(bookmark, fromDate, toDate) ==
    LET createdAt == parseTwitterDate(bookmark.createdAt)
    IN  IF Truthy(fromDate) /\ ~DateGreater(createdAt, fromDate) THEN FALSE
        ELSE IF Truthy(toDate) /\ ~DateLess(createdAt, toDate) THEN FALSE
        ELSE TRUE

\* the callback given to Array.prototype.filter, the same in both tools
KeepBookmark(bookmark, fromDate, toDate) ==
    LET createdAt == parseTwitterDate(bookmark.createdAt)
    IN  IF Truthy(fromDate) /\ DateLess(createdAt, fromDate) THEN FALSE
        ELSE IF Truthy(toDate) /\ DateGreater(createdAt, toDate) THEN FALSE
        ELSE TRUE

\* the converter's filterByDate: no bounds returns the array itself
filterByDateConvert(bs, fromDate, toDate) ==
    IF ~Truthy(fromDate) /\ ~Truthy(toDate) THEN bs
    ELSE SelectSeq(bs, LAMBDA b : KeepBookmark(b, fromDate, toDate))

\* the filter tool's filterByDate
filterByDateFilter(bs, fromDate, toDate) ==
    SelectSeq(bs, LAMBDA b : KeepBookmark(b, fromDate, toDate))

filterByDate(t, bs, fromDate, toDate) ==
    IF t = "convert" THEN filterByDateConvert(bs, fromDate, toDate)
    ELSE filterByDateFilter(bs, fromDate, toDate)

----------------------------------------------------------------------------
(* parseArgs *)

\* an optional string: null, or a string (possibly empty)
NullStr == [set |-> FALSE, s |-> <<>>]
SomeStr(s) == [set |-> TRUE, s |-> s]
TruthyOpt(o) == o.set /\ TruthyStr(o.s)

InitialOptions == [input |-> NullStr, output |-> NullStr, from |-> Null, to |-> Null]

\* args[i + 1] as a condition: there is a next argument and it is not ''
HasValue(a, i) == i + 1 <= Len(a) /\ TruthyStr(a[i + 1])

\* a faulty variant: a positional token always becomes the input path (the
\* !result.input test is missing)
ParseArgIterLastPositional(a, result, i) ==
    LET arg == a[i]
    IN  IF arg = Str_from /\ HasValue(a, i)
        THEN [result |-> [result EXCEPT !.from = parseUserDate(a[i + 1])],
              i |-> i + 2]
        ELSE IF arg = Str_to /\ HasValue(a, i)
        THEN [result |-> [result EXCEPT
                  !.to = SetHours(parseUserDate(a[i + 1]), 23, 59, 59, 999)],
              i |-> i + 2]
        ELSE IF (arg = Str_o \/ arg = Str_output) /\ HasValue(a, i)
        THEN [result |-> [result EXCEPT !.output = SomeStr(a[i + 1])],
              i |-> i + 2]
        ELSE IF ~StartsWithDash(arg)
        THEN [result |-> [result EXCEPT !.input = SomeStr(arg)], i |-> i + 1]
        ELSE [result |-> result, i |-> i + 1]

\* a faulty variant: --to keeps the midnight parseUserDate gave (no setHours)
ParseArgIterNoEndOfDay(a, result, i) ==
    LET arg == a[i]
    IN  IF arg = Str_from /\ HasValue(a, i)
        THEN [result |-> [result EXCEPT !.from = parseUserDate(a[i + 1])],
              i |-> i + 2]
        ELSE IF arg = Str_to /\ HasValue(a, i)
        THEN [result |-> [result EXCEPT !.to = parseUserDate(a[i + 1])],
              i |-> i + 2]
        ELSE IF (arg = Str_o \/ arg = Str_output) /\ HasValue(a, i)
        THEN [result |-> [result EXCEPT !.output = SomeStr(a[i + 1])],
              i |-> i + 2]
        ELSE IF ~StartsWithDash(arg) /\ ~TruthyOpt(result.input)
        THEN [result |-> [result EXCEPT !.input = SomeStr(arg)], i |-> i + 1]
        ELSE [result |-> result, i |-> i + 1]

\* one iteration of parseArgs' loop at index i: the options after it and the
\* index of the next iteration
ParseArgIter(a, result, i) ==
    LET arg == a[i]
    IN  IF arg = Str_from /\ HasValue(a, i)
        THEN [result |-> [result EXCEPT !.from = parseUserDate(a[i + 1])],
              i |-> i + 2]
        ELSE IF arg = Str_to /\ HasValue(a, i)
        THEN [result |-> [result EXCEPT
                  !.to = SetHours(parseUserDate(a[i + 1]), 23, 59, 59, 999)],
              i |-> i + 2]
        ELSE IF (arg = Str_o \/ arg = Str_output) /\ HasValue(a, i)
        THEN [result |-> [result EXCEPT !.output = SomeStr(a[i + 1])],
              i |-> i + 2]
        ELSE IF ~StartsWithDash(arg) /\ ~TruthyOpt(result.input)
        THEN [result |-> [result EXCEPT !.input = SomeStr(arg)], i |-> i + 1]
        ELSE [result |-> result, i |-> i + 1]

RECURSIVE ParseArgsFrom(_, _, _)
ParseArgsFrom(a, result, i) ==
    IF i > Len(a) THEN result
    ELSE LET st == ParseArgIter(a, result, i)
         IN  ParseArgsFrom(a, st.result, st.i)

parseArgs(a) == ParseArgsFrom(a, InitialOptions, 1)

----------------------------------------------------------------------------
(* convertToMarkdown *)

\* one element pushed onto lines: what kind of line it is, its text parts
\* and its numbers
Line(tag, s, n) == [tag |-> tag, s |-> s, n |-> n]
Blank == Line("blank", <<>>, <<>>)
Rule == Line("rule", <<>>, <<>>)

\* replace every '<' by '&lt;' and every '>' by '&gt;'
RECURSIVE escapeMarkdown(_)
escapeMarkdown(text) ==
    IF Len(text) = 0 THEN <<>>
    ELSE LET c == Head(text)
             e == IF c = "<" THEN <<"&", "l", "t", ";">>
                  ELSE IF c = ">" THEN <<"&", "g", "t", ";">>
                  ELSE <<c>>
         IN  e \o escapeMarkdown(Tail(text))

\* qtText.split('\n').join('\n> ')
RECURSIVE QuoteLines(_)
QuoteLines(text) ==
    IF Len(text) = 0 THEN <<>>
    ELSE (IF Head(text) = "\n" THEN <<"\n", ">", " ">> ELSE <<Head(text)>>)
         \o QuoteLines(Tail(text))

\* the date as displayed: a placeholder for a missing createdAt, the text
\* 'Invalid Date' for one that does not parse, else the local wall-clock
\* minute (month, day, year, hour, minute; seconds are not shown)
formatDate(dateStr) ==
    IF dateStr.kind = "absent" THEN [label |-> "Unknown date", minute |-> 0]
    ELSE LET date == parseTwitterDate(dateStr)
         IN  IF date.kind = "invalid"
             THEN [label |-> "Invalid Date", minute |-> 0]
             ELSE [label |-> "date",
                   minute |-> (date.ms + tzOffset) \div MsPerMinute]

OrDefault(s, dflt) == IF s = "" THEN dflt ELSE s
CountOr0(c) == IF c.null THEN 0 ELSE c.n

\* the lines pushed for one tweet
TweetLines(tweet) ==
    LET authorName == OrDefault(tweet.author.name, "Unknown")
        username   == OrDefault(tweet.author.username, "unknown")
        text       == escapeMarkdown(tweet.text)
        createdAt  == formatDate(tweet.createdAt)
        likes      == CountOr0(tweet.likeCount)
        retweets   == CountOr0(tweet.retweetCount)
        replies    == CountOr0(tweet.replyCount)
        qt         == tweet.quotedTweet
        qtAuthor   == OrDefault(qt.author.name, "Unknown")
        qtUsername == OrDefault(qt.author.username, "unknown")
        qtText     == escapeMarkdown(qt.text)
    IN  << Line("heading", <<authorName, username>>, <<>>),
           Line("date", <<createdAt.label>>, <<createdAt.minute>>),
           Blank,
           Line("text", text, <<>>),
           Blank,
           Line("engagement", <<>>, <<likes, retweets, replies>>),
           Line("link", <<username>>, <<tweet.id>>) >>
        \o (IF qt.present
            THEN << Blank,
                    Line("quoted", <<qtAuthor, qtUsername>>, <<>>),
                    Line("quotedtext", QuoteLines(qtText), <<>>) >>
            ELSE <<>>)
        \o << Blank, Rule, Blank >>

\* a faulty variant: each tweet's lines are put before those already there
RECURSIVE AllTweetLinesReversed(_)
AllTweetLinesReversed(bs) ==
    IF Len(bs) = 0 THEN <<>>
    ELSE AllTweetLinesReversed(Tail(bs)) \o TweetLines(Head(bs))

RECURSIVE AllTweetLines(_)
AllTweetLines(bs) ==
    IF Len(bs) = 0 THEN <<>> ELSE TweetLines(Head(bs)) \o AllTweetLines(Tail(bs))

\* the lines of the document, in order (the code joins them with '\n');
\* the export date is the clock's and is not modelled
convertToMarkdown(bs) ==
    << Line("title", <<>>, <<>>),
       Blank,
       Line("exported", <<>>, <<>>),
       Line("total", <<>>, <<Len(bs)>>),
       Blank,
       Rule,
       Blank >>
    \o AllTweetLines(bs)

----------------------------------------------------------------------------
(* The environment and the values the runs are drawn from *)

Tools == {"convert", "filter"}

\* the local time zone: UTC-5, UTC, UTC+9
TZOffsets == {0 - 5 * MsPerHour, 0, 9 * MsPerHour}

\* the exit status of a process that has not exited
NoExit == 0 - 1

\* the built output: the markdown lines, or the JSON text of an array
NoDocument == [fmt |-> "none", lines |-> <<>>, value |-> <<>>]
Markdown(lines) == [fmt |-> "markdown", lines |-> lines, value |-> <<>>]
\* JSON.stringify(value, null, 2)
Json(value) == [fmt |-> "json", lines |-> <<>>, value |-> value]

\* what the input file holds: not yet read, unreadable, not JSON, JSON that
\* is no array, or an array of records
NoContent == [kind |-> "unread", items |-> <<>>]
Unreadable == [kind |-> "unreadable", items |-> <<>>]
SyntaxError == [kind |-> "syntax", items |-> <<>>]
NotArray == [kind |-> "notarray", items |-> <<>>]
ArrayOf(items) == [kind |-> "array", items |-> items]

\* a line printed to a stream
Msg(text, a, b, body) == [msg |-> text, a |-> a, b |-> b, body |-> body]
Say(text) == Msg(text, 0, 0, NoDocument)

\* one file-system call and whether it succeeded
IO(op, path, ok) == [op |-> op, path |-> path, ok |-> ok]

Rec_jan30noon == Bare(1, Stamp(2026, 1, 30, 12, 0, 0, 0))
Rec_jan31start == Bare(2, Stamp(2026, 1, 31, 0, 0, 0, 0))
Rec_jan31end == Bare(3, Stamp(2026, 1, 31, 23, 59, 59, 0))
Rec_garbage == Bare(4, Garbage)

----------------------------------------------------------------------------
(* Specification SpecFilter: filterByDate on arbitrary arrays and bounds *)

FilterRecords == {Rec_jan30noon, Rec_jan31start, Rec_jan31end, Rec_garbage}

FilterBounds ==
    {Null} \cup {DateAt(x) : x \in {12 * MsPerHour, MsPerDay,
                                    36 * MsPerHour, 2 * MsPerDay - 1}}

InitFilter ==
    /\ tool \in Tools
    /\ args = <<>>
    /\ tzOffset = 0
    /\ pc = "filter"
    /\ argIdx = 1
    /\ options \in {[InitialOptions EXCEPT !.from = f, !.to = t] :
                        f \in FilterBounds, t \in FilterBounds}
    /\ bookmarks \in SeqsUpTo(FilterRecords, MaxRecords)
    /\ filtered = <<>>
    /\ document = NoDocument
    /\ stdout = <<>>
    /\ stderr = <<>>
    /\ outFile = NoDocument
    /\ ioLog = <<>>
    /\ inputContent = NoContent
    /\ exitCode = NoExit

ApplyFilter ==
    /\ pc = "filter"
    /\ filtered' = filterByDate(tool, bookmarks, options.from, options.to)
    /\ pc' = "filtered"
    /\ UNCHANGED <<tool, args, tzOffset, argIdx, options, bookmarks, document,
                   stdout, stderr, outFile, ioLog, inputContent, exitCode>>

NextFilter == ApplyFilter

SpecFilter == InitFilter /\ [][NextFilter]_vars

\* the instant of a record whose createdAt parses
InstantOf(b) == parseTwitterDate(b.createdAt).ms
HasValidStamp(b) == b.createdAt.kind = "stamp"

\* the bound predicate of the contract
InBounds(t, from, to) ==
    /\ (from.kind = "null" \/ t >= from.ms)
    /\ (to.kind = "null" \/ t <= to.ms)

\* C1: filterByDate(A, from, to) is an order-preserving subsequence of A in
\* which a record with a valid timestamp t is kept iff (from unset or
\* t >= from) and (to unset or t <= to); with both bounds unset it is A.
C1_FilterIsBoundedSubsequence ==
    pc = "filtered" =>
      /\ \E f \in [1..Len(filtered) -> 1..Len(bookmarks)] :
            /\ \A i, j \in 1..Len(filtered) : i < j => f[i] < f[j]
            /\ \A i \in 1..Len(filtered) : filtered[i] = bookmarks[f[i]]
            /\ \A j \in 1..Len(bookmarks) :
                  HasValidStamp(bookmarks[j]) =>
                     ((\E i \in 1..Len(filtered) : f[i] = j)
                        <=> InBounds(InstantOf(bookmarks[j]), options.from, options.to))
      /\ (options.from = Null /\ options.to = Null => filtered = bookmarks)

\* C1 witness: of two records with valid timestamps and two set bounds, one
\* record was kept and one dropped
C1_Witness ==
    /\ pc = "filtered"
    /\ options.from # Null /\ options.to # Null
    /\ Len(bookmarks) = 2 /\ Len(filtered) = 1
    /\ \A j \in 1..2 : HasValidStamp(bookmarks[j])

\* C2: a record whose createdAt does not parse is excluded whenever a bound
\* is set, and included when no bound is set.
C2_InvalidDateExcludedUnderBound ==
    pc = "filtered" =>
      \A j \in 1..Len(bookmarks) :
         ~HasValidStamp(bookmarks[j]) =>
            IF options.from # Null \/ options.to # Null
            THEN \A i \in 1..Len(filtered) : filtered[i] # bookmarks[j]
            ELSE \E i \in 1..Len(filtered) : filtered[i] = bookmarks[j]

----------------------------------------------------------------------------
(* Specification SpecDay: one day flag parsed by parseArgs, then one record
   filtered with the bound it gave *)

\* the days of the model's calendar window, numbered from BaseDay
CivilDay(k) ==
    CASE k = 0 -> [y |-> 2026, mo |-> 1, d |-> 30]
      [] k = 1 -> [y |-> 2026, mo |-> 1, d |-> 31]
      [] k = 2 -> [y |-> 2026, mo |-> 2, d |-> 1]
      [] k = 3 -> [y |-> 2026, mo |-> 2, d |-> 2]

\* times of day (UTC) around each zone's local midnight
ClockTimes ==
    { [h |-> 0, mi |-> 0, s |-> 0, ms |-> 0],
      [h |-> 4, mi |-> 59, s |-> 59, ms |-> 999],
      [h |-> 5, mi |-> 0, s |-> 0, ms |-> 0],
      [h |-> 14, mi |-> 59, s |-> 59, ms |-> 999],
      [h |-> 15, mi |-> 0, s |-> 0, ms |-> 0],
      [h |-> 23, mi |-> 59, s |-> 59, ms |-> 999] }

DayRecords ==
    { Bare(1, Stamp(CivilDay(k).y, CivilDay(k).mo, CivilDay(k).d,
                    c.h, c.mi, c.s, c.ms)) : k \in 0..3, c \in ClockTimes }

\* the day arguments, with the day number each names
DayTokens == {Str_jan31, Str_feb01}
DayNumber(tok) == IF tok = Str_jan31 THEN 1 ELSE 2

InitDay ==
    /\ tool \in Tools
    /\ args \in {<<flag, day>> : flag \in {Str_from, Str_to}, day \in DayTokens}
    /\ tzOffset \in TZOffsets
    /\ pc = "day_parse"
    /\ argIdx = 1
    /\ options = InitialOptions
    /\ bookmarks \in {<<r>> : r \in DayRecords}
    /\ filtered = <<>>
    /\ document = NoDocument
    /\ stdout = <<>>
    /\ stderr = <<>>
    /\ outFile = NoDocument
    /\ ioLog = <<>>
    /\ inputContent = NoContent
    /\ exitCode = NoExit

DayParse ==
    /\ pc = "day_parse"
    /\ options' = parseArgs(args)
    /\ pc' = "day_filter"
    /\ UNCHANGED <<tool, args, tzOffset, argIdx, bookmarks, filtered, document,
                   stdout, stderr, outFile, ioLog, inputContent, exitCode>>

DayFilter ==
    /\ pc = "day_filter"
    /\ filtered' = filterByDate(tool, bookmarks, options.from, options.to)
    /\ pc' = "day_done"
    /\ UNCHANGED <<tool, args, tzOffset, argIdx, options, bookmarks, document,
                   stdout, stderr, outFile, ioLog, inputContent, exitCode>>

NextDay == DayParse \/ DayFilter

SpecDay == InitDay /\ [][NextDay]_vars

\* the local calendar day, numbered from BaseDay, that holds the instant of
\* a record
LocalDayOf(b) == (InstantOf(b) + tzOffset) \div MsPerDay

\* C7: with --to D the upper bound is 23:59:59.999 local of day D, a record
\* at any instant of day D is kept and one at any instant of day D+1 is
\* dropped; with --from D the lower bound is 00:00:00.000 local of day D, a
\* record at any instant of day D is kept and one of day D-1 is dropped.
C7_DayBoundsCoverTheWholeDay ==
    pc = "day_done" =>
      LET D    == DayNumber(args[2])
          r    == bookmarks[1]
          kept == filtered = <<r>>
          gone == filtered = <<>>
      IN  IF args[1] = Str_to
          THEN /\ options.to = DateAt((D + 1) * MsPerDay - 1 - tzOffset)
               /\ options.from = Null
               /\ (LocalDayOf(r) = D => kept)
               /\ (LocalDayOf(r) = D + 1 => gone)
          ELSE /\ options.from = DateAt(D * MsPerDay - tzOffset)
               /\ options.to = Null
               /\ (LocalDayOf(r) = D => kept)
               /\ (LocalDayOf(r) = D - 1 => gone)

\* C7 witness: under --to D in a zone west of UTC, a record of the last
\* millisecond of local day D (already day D+1 in UTC) was kept
C7_Witness ==
    /\ pc = "day_done"
    /\ args[1] = Str_to
    /\ tzOffset < 0
    /\ LocalDayOf(bookmarks[1]) = DayNumber(args[2])
    /\ InstantOf(bookmarks[1]) \div MsPerDay = DayNumber(args[2]) + 1
    /\ filtered = bookmarks

----------------------------------------------------------------------------
(* Specification SpecArgs: parseArgs' loop, one iteration per step *)

ArgTokens == {Str_from, Str_to, Str_o, Str_output, Str_v, Str_empty,
              Str_in, Str_out, Str_jan31}

InitArgs ==
    /\ tool \in Tools
    /\ args \in SeqsUpTo(ArgTokens, MaxArgs)
    /\ tzOffset = 0
    /\ pc = "args_loop"
    /\ argIdx = 1
    /\ options = InitialOptions
    /\ bookmarks = <<>>
    /\ filtered = <<>>
    /\ document = NoDocument
    /\ stdout = <<>>
    /\ stderr = <<>>
    /\ outFile = NoDocument
    /\ ioLog = <<>>
    /\ inputContent = NoContent
    /\ exitCode = NoExit

\* the body of the for loop, at index argIdx
ArgStep ==
    /\ pc = "args_loop"
    /\ argIdx <= Len(args)
    /\ LET st == ParseArgIter(args, options, argIdx)
       IN  /\ options' = st.result
           /\ argIdx' = st.i
    /\ UNCHANGED <<tool, args, tzOffset, pc, bookmarks, filtered, document,
                   stdout, stderr, outFile, ioLog, inputContent, exitCode>>

\* the loop condition fails: return result
ArgsDone ==
    /\ pc = "args_loop"
    /\ argIdx > Len(args)
    /\ pc' = "args_done"
    /\ UNCHANGED <<tool, args, tzOffset, argIdx, options, bookmarks, filtered,
                   document, stdout, stderr, outFile, ioLog, inputContent,
                   exitCode>>

NextArgs == ArgStep \/ ArgsDone

SpecArgs == InitArgs /\ [][NextArgs]_vars

\* the flags that take a value
ValueFlags == {Str_from, Str_to, Str_o, Str_output}

\* the token the loop looks at is one the claim says is ignored: a dash
\* token that is no value flag, or a positional token when the input path
\* is already set
IgnoredToken ==
    /\ pc = "args_loop"
    /\ argIdx <= Len(args)
    /\ \/ StartsWithDash(args[argIdx]) /\ args[argIdx] \notin ValueFlags
       \/ ~StartsWithDash(args[argIdx]) /\ TruthyOpt(options.input)

\* the first token from index i on that does not start with '-' and is not
\* the value of a value flag, every token after a value flag being its value
RECURSIVE FirstPositional(_, _)
FirstPositional(a, i) ==
    IF i > Len(a) THEN NullStr
    ELSE IF a[i] \in ValueFlags /\ i + 1 <= Len(a) THEN FirstPositional(a, i + 2)
    ELSE IF ~StartsWithDash(a[i]) THEN SomeStr(a[i])
    ELSE FirstPositional(a, i + 1)

\* the same, where an empty token is never a value and never the input path
RECURSIVE FirstNonEmptyPositional(_, _)
FirstNonEmptyPositional(a, i) ==
    IF i > Len(a) THEN NullStr
    ELSE IF a[i] \in ValueFlags /\ i + 1 <= Len(a) /\ a[i + 1] # Str_empty
         THEN FirstNonEmptyPositional(a, i + 2)
    ELSE IF ~StartsWithDash(a[i]) /\ a[i] # Str_empty THEN SomeStr(a[i])
    ELSE FirstNonEmptyPositional(a, i + 1)

\* C10 as stated: an ignored token leaves every option unchanged, and the
\* input path is the first token that does not start with '-' and was not
\* consumed as the value of --from, --to, -o or --output.
C10_Original ==
    /\ [][IgnoredToken => options' = options]_vars
    /\ [](pc = "args_done" => options.input = FirstPositional(args, 1))

\* C10 amended: an ignored token leaves every option unchanged, and the
\* input path is the first non-empty token that does not start with '-' and
\* was not consumed as a value, an empty token never being consumed as a
\* value; when there is none the input is null or the empty string.
C10_UnknownTokensIgnored ==
    /\ [][IgnoredToken => options' = options]_vars
    /\ [](pc = "args_done" =>
            LET first == FirstNonEmptyPositional(args, 1)
            IN  IF first = NullStr THEN ~TruthyOpt(options.input)
                ELSE options.input = first)

\* C10 witness: parseArgs returned after skipping an unknown flag, taking
\* the input path, and skipping a later positional token
C10_Witness ==
    /\ pc = "args_done"
    /\ args = <<Str_v, Str_in, Str_out>>
    /\ options = [InitialOptions EXCEPT !.input = SomeStr(Str_in)]

----------------------------------------------------------------------------
(* Specification SpecRender: convertToMarkdown on arbitrary arrays *)

Rec_full ==
    Tweet(11, Stamp(2026, 1, 31, 16, 1, 16, 0), <<"a", "<", "b", ">", "c">>,
          Author("A", "a"), Count(5), NoCount, NoCount, NoQuote)
Rec_quoting ==
    Tweet(12, Stamp(2026, 1, 30, 23, 30, 0, 0), <<"h", "i">>,
          Author("B", ""), Count(0), Count(2), Count(1),
          Quote(Author("", "q"), <<"x", "\n", "<", "y">>))
Rec_empty == Tweet(13, NoStamp, <<>>, NoAuthor, NoCount, NoCount, NoCount, NoQuote)
Rec_undated ==
    Tweet(14, Garbage, <<"-", "-", "-">>, Author("C", "c"), NoCount, Count(7),
          NoCount, Quote(NoAuthor, <<>>))

RenderRecords == {Rec_full, Rec_quoting, Rec_empty, Rec_undated}

InitRender ==
    /\ tool = "convert"
    /\ args = <<>>
    /\ tzOffset \in TZOffsets
    /\ pc = "render"
    /\ argIdx = 1
    /\ options = InitialOptions
    /\ bookmarks \in SeqsUpTo(RenderRecords, MaxRecords)
    /\ filtered = <<>>
    /\ document = NoDocument
    /\ stdout = <<>>
    /\ stderr = <<>>
    /\ outFile = NoDocument
    /\ ioLog = <<>>
    /\ inputContent = NoContent
    /\ exitCode = NoExit

\* convertToMarkdown reads the records and assigns to none of them
Render ==
    /\ pc = "render"
    /\ document' = Markdown(convertToMarkdown(bookmarks))
    /\ pc' = "rendered"
    /\ UNCHANGED <<tool, args, tzOffset, argIdx, options, bookmarks, filtered,
                   stdout, stderr, outFile, ioLog, inputContent, exitCode>>

NextRender == Render

SpecRender == InitRender /\ [][NextRender]_vars

\* the kinds of line one entry is made of, in order
EntryTags(tweet) ==
    <<"heading", "date", "blank", "text", "blank", "engagement", "link">>
    \o (IF tweet.quotedTweet.present THEN <<"blank", "quoted", "quotedtext">>
        ELSE <<>>)
    \o <<"blank", "rule", "blank">>

RECURSIVE ExpectedTags(_)
ExpectedTags(bs) ==
    IF Len(bs) = 0 THEN <<>> ELSE EntryTags(Head(bs)) \o ExpectedTags(Tail(bs))

TagsOf(lines) == [k \in 1..Len(lines) |-> lines[k].tag]
LinesTagged(lines, tag) == SelectSeq(lines, LAMBDA l : l.tag = tag)

\* C9: the document states the number of records given in its total-count
\* line and holds exactly one entry (heading, date, body, engagement line,
\* link, optional quoted block, trailing rule) per record, in the order of
\* the records; the records are not changed.
C9_OneEntryPerRecordInOrder ==
    /\ [](pc = "rendered" =>
            LET lines == document.lines
                links == LinesTagged(lines, "link")
            IN  /\ LinesTagged(lines, "total")
                      = <<Line("total", <<>>, <<Len(bookmarks)>>)>>
                /\ TagsOf(lines)
                      = <<"title", "blank", "exported", "total", "blank",
                          "rule", "blank">> \o ExpectedTags(bookmarks)
                /\ Len(links) = Len(bookmarks)
                /\ \A k \in 1..Len(bookmarks) : links[k].n = <<bookmarks[k].id>>)
    /\ [][bookmarks' = bookmarks]_vars

\* C9 witness: two different records, the second with a quoted tweet, were
\* rendered
C9_Witness ==
    /\ pc = "rendered"
    /\ Len(bookmarks) = 2
    /\ bookmarks[1].id # bookmarks[2].id
    /\ bookmarks[2].quotedTweet.present
    /\ document.fmt = "markdown"

----------------------------------------------------------------------------
(* Specification Spec: one run of main() of either tool *)

\* the argument lists: up to MaxItems of these pieces, one after another
ArgItems ==
    { <<Str_in>>,
      <<Str_from, Str_jan31>>, <<Str_from, Str_2seg>>,
      <<Str_to, Str_jan31>>, <<Str_to, Str_nonnum>>,
      <<Str_o, Str_out>>,
      <<Str_h>>, <<Str_help>>,
      <<Str_from>>, <<Str_o>> }

RECURSIVE ItemLists(_)
ItemLists(n) ==
    IF n = 0 THEN {<<>>}
    ELSE LET shorter == ItemLists(n - 1)
         IN  shorter \cup {l \o it : l \in shorter, it \in ArgItems}

\* what reading and parsing the input file can give
InputContents ==
    {Unreadable, SyntaxError, NotArray}
    \cup {ArrayOf(a) : a \in {<<>>, <<Rec_jan31end>>,
                              <<Rec_jan30noon, Rec_jan31end>>,
                              <<Rec_garbage, Rec_jan31start, Rec_jan30noon>>,
                              <<Rec_jan31end, NullElement>>}}

\* 'bookmarks.json', the converter's default input
Str_defaultIn == <<"b", ".", "j", "s", "o", "n">>
\* `bookmarks-${today}.md`, the converter's default output
Str_defaultOut == <<"b", ".", "m", "d">>

Init ==
    /\ tool \in Tools
    /\ args \in ItemLists(MaxItems)
    /\ tzOffset = 9 * MsPerHour
    /\ pc = "start"
    /\ argIdx = 1
    /\ options = InitialOptions
    /\ bookmarks = <<>>
    /\ filtered = <<>>
    /\ document = NoDocument
    /\ stdout = <<>>
    /\ stderr = <<>>
    /\ outFile = NoDocument
    /\ ioLog = <<>>
    /\ inputContent = NoContent
    /\ exitCode = NoExit

\* a faulty variant: help is looked for among the tokens the argument loop sees, so
\* that a help flag standing as the value of a flag is not seen
RECURSIVE HelpSeenFrom(_, _)
HelpSeenFrom(a, i) ==
    IF i > Len(a) THEN FALSE
    ELSE IF a[i] \in {Str_from, Str_to, Str_o, Str_output} /\ HasValue(a, i)
         THEN HelpSeenFrom(a, i + 2)
    ELSE a[i] = Str_help \/ a[i] = Str_h \/ HelpSeenFrom(a, i + 1)

HelpRequestedInLoop(t, a) ==
    \/ t = "filter" /\ Len(a) = 0
    \/ HelpSeenFrom(a, 1)

\* args.includes('--help') || args.includes('-h'), and for the filter tool
\* also args.length === 0
HelpRequested(t, a) ==
    \/ t = "filter" /\ Len(a) = 0
    \/ \E k \in 1..Len(a) : a[k] = Str_help \/ a[k] = Str_h

\* process.exit(code) after printing err to the error stream
Fail(err) ==
    /\ stderr' = stderr \o err
    /\ exitCode' = 1
    /\ pc' = "exit"

\* the usage text is printed and the process exits with 0
Help ==
    /\ pc = "start"
    /\ HelpRequested(tool, args)
    /\ stdout' = Append(stdout, Say("usage"))
    /\ exitCode' = 0
    /\ pc' = "exit"
    /\ UNCHANGED <<tool, args, tzOffset, argIdx, options, bookmarks, filtered,
                   document, stderr, outFile, ioLog, inputContent>>

\* const options = parseArgs(args)
ParseArgs ==
    /\ pc = "start"
    /\ ~HelpRequested(tool, args)
    /\ options' = parseArgs(args)
    /\ pc' = IF tool = "filter" THEN "need_input" ELSE "exists"
    /\ UNCHANGED <<tool, args, tzOffset, argIdx, bookmarks, filtered, document,
                   stdout, stderr, outFile, ioLog, inputContent, exitCode>>

\* filter tool: if (!options.input) exit 1
RequireInput ==
    /\ pc = "need_input"
    /\ IF ~TruthyOpt(options.input)
       THEN Fail(<<Say("Error: Input file required")>>)
       ELSE pc' = "exists" /\ UNCHANGED <<stderr, exitCode>>
    /\ UNCHANGED <<tool, args, tzOffset, argIdx, options, bookmarks, filtered,
                   document, stdout, outFile, ioLog, inputContent>>

\* options.input || 'bookmarks.json' (the filter tool has no default)
InputFile == IF TruthyOpt(options.input) THEN options.input.s ELSE Str_defaultIn
\* options.output || defaultOutput (the converter)
OutputFile == IF TruthyOpt(options.output) THEN options.output.s ELSE Str_defaultOut

\* if (!fs.existsSync(inputFile)) exit 1
ExistsCheck ==
    /\ pc = "exists"
    /\ \E found \in BOOLEAN :
          /\ ioLog' = Append(ioLog, IO("existsSync", InputFile, found))
          /\ IF ~found
             THEN Fail(<<Say("Error: Input file not found")>>
                       \o (IF tool = "convert" THEN <<Say("Usage")>> ELSE <<>>))
             ELSE /\ pc' = IF tool = "filter" THEN "need_bound" ELSE "read"
                  /\ UNCHANGED <<stderr, exitCode>>
    /\ UNCHANGED <<tool, args, tzOffset, argIdx, options, bookmarks, filtered,
                   document, stdout, outFile, inputContent>>

\* a faulty variant: the message is printed but the process does not exit
RequireBoundWarnOnly ==
    /\ pc = "need_bound"
    /\ stderr' = IF ~Truthy(options.from) /\ ~Truthy(options.to)
                 THEN Append(stderr, Say("Error: At least one of --from or --to is required"))
                 ELSE stderr
    /\ pc' = "read"
    /\ UNCHANGED <<tool, args, tzOffset, argIdx, options, bookmarks, filtered,
                   document, stdout, outFile, ioLog, inputContent, exitCode>>

\* filter tool: if (!options.from && !options.to) exit 1
RequireBound ==
    /\ pc = "need_bound"
    /\ IF ~Truthy(options.from) /\ ~Truthy(options.to)
       THEN Fail(<<Say("Error: At least one of --from or --to is required")>>)
       ELSE pc' = "read" /\ UNCHANGED <<stderr, exitCode>>
    /\ UNCHANGED <<tool, args, tzOffset, argIdx, options, bookmarks, filtered,
                   document, stdout, outFile, ioLog, inputContent>>

\* a faulty variant: the Array.isArray test is missing and a value that is no array
\* is processed as an empty list
ReadInputAcceptsNonArray ==
    /\ pc = "read"
    /\ \E content \in InputContents :
          /\ inputContent' = content
          /\ ioLog' = Append(ioLog, IO("readFileSync", InputFile,
                                       content.kind # "unreadable"))
          /\ IF content.kind \in {"unreadable", "syntax"}
             THEN Fail(<<Say("Error processing bookmarks:")>>)
                  /\ UNCHANGED bookmarks
             ELSE /\ bookmarks' = content.items
                  /\ pc' = "process"
                  /\ UNCHANGED <<stderr, exitCode>>
    /\ UNCHANGED <<tool, args, tzOffset, argIdx, options, filtered, document,
                   stdout, outFile>>

\* readFileSync, JSON.parse, Array.isArray: a throw of the first two is
\* caught at the end of main, a value that is no array exits at once
ReadInput ==
    /\ pc = "read"
    /\ \E content \in InputContents :
          /\ inputContent' = content
          /\ ioLog' = Append(ioLog, IO("readFileSync", InputFile,
                                       content.kind # "unreadable"))
          /\ IF content.kind \in {"unreadable", "syntax"}
             THEN Fail(<<Say("Error processing bookmarks:")>>)
                  /\ UNCHANGED bookmarks
             ELSE IF content.kind = "notarray"
             THEN Fail(<<Say("Error: JSON file should contain an array of bookmarks")>>)
                  /\ UNCHANGED bookmarks
             ELSE /\ bookmarks' = content.items
                  /\ pc' = "process"
                  /\ UNCHANGED <<stderr, exitCode>>
    /\ UNCHANGED <<tool, args, tzOffset, argIdx, options, filtered, document,
                   stdout, outFile>>

\* filterByDate, then the whole output built in memory: convertToMarkdown
\* (converter) or JSON.stringify (filter tool); a null element makes the
\* filter callback (bookmark.createdAt) or the renderer (tweet.author) throw,
\* which is caught at the end of main
Process ==
    /\ pc = "process"
    /\ IF ThrowsOn(bookmarks)
       THEN /\ Fail(<<Say("Error processing bookmarks:")>>)
            /\ UNCHANGED <<filtered, document>>
       ELSE /\ LET kept == filterByDate(tool, bookmarks, options.from, options.to)
               IN  /\ filtered' = kept
                   /\ document' = IF tool = "convert"
                                  THEN Markdown(convertToMarkdown(kept))
                                  ELSE Json(kept)
            /\ pc' = IF tool = "convert" \/ TruthyOpt(options.output)
                     THEN "write" ELSE "print"
            /\ UNCHANGED <<stderr, exitCode>>
    /\ UNCHANGED <<tool, args, tzOffset, argIdx, options, bookmarks, stdout,
                   outFile, ioLog, inputContent>>

\* the count line 'Filtered N -> M bookmarks'
CountLine == Msg("Filtered", Len(bookmarks), Len(filtered), NoDocument)

\* fs.writeFileSync(output) and the lines printed after it; a throw is
\* caught at the end of main
WriteOutput ==
    /\ pc = "write"
    /\ \E written \in BOOLEAN :
          /\ ioLog' = Append(ioLog, IO("writeFileSync", OutputFile, written))
          /\ IF ~written
             THEN Fail(<<Say("Error processing bookmarks:")>>)
                  /\ UNCHANGED <<stdout, outFile>>
             ELSE /\ outFile' = document
                  /\ IF tool = "convert"
                     THEN /\ stdout' = stdout
                               \o (IF Truthy(options.from) \/ Truthy(options.to)
                                   THEN <<CountLine>> ELSE <<>>)
                               \o <<Msg("Successfully converted", Len(filtered),
                                        0, NoDocument)>>
                          /\ UNCHANGED stderr
                     ELSE /\ stderr' = stderr
                               \o <<CountLine, Say("Output written to")>>
                          /\ UNCHANGED stdout
                  /\ exitCode' = 0
                  /\ pc' = "exit"
    /\ UNCHANGED <<tool, args, tzOffset, argIdx, options, bookmarks, filtered,
                   document, inputContent>>

\* a faulty variant: the count line is printed with console.log too
PrintOutputCountToStdout ==
    /\ pc = "print"
    /\ stdout' = stdout \o <<Msg("output", 0, 0, document),
                            Msg("Filtered", Len(bookmarks), Len(filtered), NoDocument)>>
    /\ exitCode' = 0
    /\ pc' = "exit"
    /\ UNCHANGED <<tool, args, tzOffset, argIdx, options, bookmarks, filtered,
                   document, stderr, outFile, ioLog, inputContent>>

\* filter tool without -o: console.log(output), the count to the error stream
PrintOutput ==
    /\ pc = "print"
    /\ stdout' = Append(stdout, Msg("output", 0, 0, document))
    /\ stderr' = Append(stderr, CountLine)
    /\ exitCode' = 0
    /\ pc' = "exit"
    /\ UNCHANGED <<tool, args, tzOffset, argIdx, options, bookmarks, filtered,
                   document, outFile, ioLog, inputContent>>

Next ==
    \/ Help
    \/ ParseArgs
    \/ RequireInput
    \/ ExistsCheck
    \/ RequireBound
    \/ ReadInput
    \/ Process
    \/ WriteOutput
    \/ PrintOutput

Spec == Init /\ [][Next]_vars

----------------------------------------------------------------------------
(* Properties of a run *)

Exited == pc = "exit"

HelpFlagGiven == \E k \in 1..Len(args) : args[k] = Str_help \/ args[k] = Str_h

Called(op) == \E k \in 1..Len(ioLog) : ioLog[k].op = op
Failed(op) == \E k \in 1..Len(ioLog) : ioLog[k].op = op /\ ~ioLog[k].ok

\* the run wrote its output file, or (filter tool without -o) printed it
Succeeded ==
    /\ inputContent.kind = "array"
    /\ document # NoDocument
    /\ \/ outFile = document
       \/ tool = "filter" /\ stdout = <<Msg("output", 0, 0, document)>>

\* file not found, read failure, JSON syntax failure, no array
InputError ==
    \/ Failed("existsSync")
    \/ Failed("readFileSync")
    \/ inputContent.kind \in {"syntax", "notarray"}

\* filter tool: the positional input or both bounds are missing
UsageError ==
    /\ tool = "filter"
    /\ ~HelpRequested(tool, args)
    /\ \/ ~TruthyOpt(parseArgs(args).input)
       \/ parseArgs(args).from = Null /\ parseArgs(args).to = Null

\* C3: a run that ends in an input error or a usage error has written
\* nothing to the output file; the output write is single and comes only
\* after the input was found, read, parsed to an array and filtered, and
\* the whole document was built from the filtered array.
C3_NoWriteBeforeDocumentIsBuilt ==
    /\ (Exited /\ (InputError \/ UsageError) =>
           /\ exitCode = 1
           /\ ~Called("writeFileSync")
           /\ outFile = NoDocument)
    /\ \A k \in 1..Len(ioLog) :
          ioLog[k].op = "writeFileSync" =>
             /\ k = Len(ioLog)
             /\ \A j \in 1..(k - 1) : ioLog[j].op # "writeFileSync" /\ ioLog[j].ok
             /\ \E j \in 1..(k - 1) : ioLog[j].op = "readFileSync"
             /\ inputContent.kind = "array"
             /\ bookmarks = inputContent.items
             /\ filtered = filterByDate(tool, bookmarks, options.from, options.to)
             /\ document = IF tool = "convert"
                           THEN Markdown(convertToMarkdown(filtered))
                           ELSE Json(filtered)
    /\ (outFile # NoDocument => outFile = document /\ Called("writeFileSync"))

\* C3 witness: a run that read a file holding JSON that is no array has
\* exited
C3_Witness ==
    /\ Exited
    /\ inputContent = NotArray
    /\ exitCode = 1
    /\ Called("readFileSync")

\* the values given to --from and --to, every token after a value flag
\* being its value
RECURSIVE DateValues(_, _)
DateValues(a, i) ==
    IF i + 1 > Len(a) THEN {}
    ELSE IF a[i] \in ValueFlags
         THEN (IF a[i] \in {Str_from, Str_to} THEN {a[i + 1]} ELSE {})
              \cup DateValues(a, i + 2)
    ELSE DateValues(a, i + 1)

\* not three '-'-separated segments, or a segment that is no number
Malformed(tok) ==
    LET segs == SplitDash(tok)
    IN  Len(segs) # 3 \/ \E k \in 1..Len(segs) : segs[k] = <<>> \/ Number(segs[k]).nan

\* C4: a malformed --from or --to value is a usage error surfaced before
\* any file I/O: no file-system call is made, nothing is filtered, and the
\* run ends with status 1.
C4_MalformedDateFailsFast ==
    (~HelpFlagGiven /\ \E v \in DateValues(args, 1) : Malformed(v)) =>
       /\ ioLog = <<>>
       /\ pc \notin {"process", "write", "print"}
       /\ (Exited => exitCode = 1)

\* the conditions under which the tools must exit with 1: a usage error, an
\* input error, an array that cannot be processed, a failed write
MustFail ==
    \/ UsageError
    \/ InputError
    \/ inputContent.kind = "array" /\ ThrowsOn(inputContent.items)
    \/ Failed("writeFileSync")

\* a run that has not exited stands at a step of main, each of which can
\* be taken (the guard of every action but Help and ParseArgs is its pc,
\* and of these two one is enabled at the start); main has no loop
Progresses ==
    \/ Exited /\ exitCode # NoExit
    \/ ~Exited /\ exitCode = NoExit
         /\ \/ pc \in {"start", "exists", "read", "process", "write"}
            \/ tool = "filter" /\ pc \in {"need_input", "need_bound", "print"}

C6_HelpBeforeAnyFileAccess ==
    HelpFlagGiven =>
       /\ ioLog = <<>>
       /\ pc \in {"start", "exit"}
       /\ (Exited => exitCode = 0 /\ stdout = <<Say("usage")>> /\ stderr = <<>>)

\* C6 witness: a run whose help flag stands where the value of --from or -o
\* would stand has exited
C6_Witness ==
    /\ Exited
    /\ \E k \in 1..(Len(args) - 1) :
          /\ args[k] \in ValueFlags
          /\ args[k + 1] \in {Str_h, Str_help}
          /\ \A j \in 1..Len(args) : j # k + 1 => args[j] \notin {Str_h, Str_help}

\* C8: a successful filter-tool run without -o prints exactly the JSON of
\* the filtered array to standard output and the count line to the error
\* stream; with -o it writes the JSON to the file and prints nothing to
\* standard output; the counts are the lengths of the input array and of
\* the filtered array.
C8_FilterToolOutputChannels ==
    (Exited /\ tool = "filter" /\ exitCode = 0 /\ ~HelpRequested(tool, args)) =>
       LET count == Msg("Filtered", Len(inputContent.items),
                        Len(filterByDate(tool, inputContent.items,
                                         options.from, options.to)),
                        NoDocument)
           json  == Json(filterByDate(tool, inputContent.items,
                                      options.from, options.to))
       IN  /\ inputContent.kind = "array"
           /\ IF ~TruthyOpt(options.output)
              THEN /\ stdout = <<Msg("output", 0, 0, json)>>
                   /\ stderr = <<count>>
                   /\ outFile = NoDocument
                   /\ ~Called("writeFileSync")
              ELSE /\ stdout = <<>>
                   /\ outFile = json
                   /\ \E k \in 1..Len(stderr) : stderr[k] = count
                   /\ ioLog[Len(ioLog)] = IO("writeFileSync", options.output.s, TRUE)

\* C8 witness: a filter-tool run without -o printed one record of two
C8_Witness ==
    /\ Exited
    /\ tool = "filter"
    /\ exitCode = 0
    /\ ~TruthyOpt(options.output)
    /\ Len(inputContent.items) = 2
    /\ stderr = <<Msg("Filtered", 2, 1, NoDocument)>>
    /\ Len(stdout) = 1

=============================================================================
